---- MODULE Spec2Model ----
(***************************************************************************)
(* The beam-search refinement workflow of my_agent: the main graph of      *)
(* agent.py (nodes, conditional edges and routers) over the GraphState     *)
(* keys written by the node functions of upper_agents.py.                  *)
(*                                                                         *)
(* A response thread is a Python dict {"agent_name", "content"}; the       *)
(* lists state["responses"] and state["discarded_responses"] hold          *)
(* references to such dicts.  The model keeps the dicts in `heap` and the  *)
(* lists as sequences of heap addresses, so that sharing (or not sharing)  *)
(* a dict between two list positions is visible.                           *)
(***************************************************************************)
EXTENDS Integers, Sequences, FiniteSets, TLC

\* ------------------------------------------------------------------ bounds

\* The scorer's replies are the decimals 1..MaxScore.
MaxScore == 3

\* At most this many replies of the scorer in one run differ from BaseScore.
MaxOffScores == 1

\* SpecSelect: populations of 1..MaxThreads threads, scored 1..MaxSelectScore.
MaxThreads == 5

MaxSelectScore == 5

\* ------------------------------------------------------- values of the keys

\* A key that no node has written yet.
UNSET == -1

Scores == 1..MaxScore

BaseScore == (MaxScore + 1) \div 2

\* result.content of the scorer: a decimal text, or text float() rejects.
ScorerReplies ==
    [numeral : {TRUE}, val : Scores] \cup {[numeral |-> FALSE, val |-> UNSET]}

\* Mutant: a reply that is no numeral counts as the score 0
\* (try: float(score) / except ValueError: 0.0).
float_Lenient(reply) ==
    IF reply.numeral
    THEN [ok |-> TRUE, val |-> reply.val]
    ELSE [ok |-> TRUE, val |-> 0]

\* float(score): the number a numeral stands for, or ValueError.
float(reply) ==
    IF reply.numeral
    THEN [ok |-> TRUE, val |-> reply.val]
    ELSE [ok |-> FALSE, val |-> UNSET]

\* result.content of the difficulty classifier.
ClassifierReplies == {"1", "2", "3", "4", "5"}

\* result.content of the convergence check.
CheckDoneReplies == {"PROCESS DONE", "CONTINUE"}

\* The final answer of a generation subgraph: the n-th text of the run,
\* produced from the trace of backend `by`.
Text(n, by) == [id |-> n, by |-> by]

\* join_graph: a fresh dict holding the key "text" only.
join_graph(final_answer) ==
    [text |-> final_answer, comments |-> UNSET, score |-> UNSET]

NoResponse ==
    [text |-> Text(UNSET, "unset"), comments |-> UNSET, score |-> UNSET]

\* The scorer has not replied yet.
NoScorerReply == [numeral |-> TRUE, val |-> UNSET]

\* Mutant: the tier-2 entry allows 4 revisions instead of 3.
difficulty_dict_Tier2Revisions ==
    [d \in {"1", "2", "3", "4"} |->
        CASE d = "1" -> [difficulty |-> 1, threads |-> 3, beams |-> 3,
                         start |-> 0, revisions |-> 4]
          [] d = "2" -> [difficulty |-> 2, threads |-> 5, beams |-> 3,
                         start |-> 0, revisions |-> 4]
          [] d = "3" -> [difficulty |-> 3, threads |-> 7, beams |-> 3,
                         start |-> 0, revisions |-> 2]
          [] d = "4" -> [difficulty |-> 4, threads |-> 9, beams |-> 3,
                         start |-> 0, revisions |-> 1]]

difficulty_dict ==
    [d \in {"1", "2", "3", "4"} |->
        CASE d = "1" -> [difficulty |-> 1, threads |-> 3, beams |-> 3,
                         start |-> 0, revisions |-> 4]
          [] d = "2" -> [difficulty |-> 2, threads |-> 5, beams |-> 3,
                         start |-> 0, revisions |-> 3]
          [] d = "3" -> [difficulty |-> 3, threads |-> 7, beams |-> 3,
                         start |-> 0, revisions |-> 2]
          [] d = "4" -> [difficulty |-> 4, threads |-> 9, beams |-> 3,
                         start |-> 0, revisions |-> 1]]

\* Mutant: an unknown key falls back to the tier-1 entry
\* (difficulty_dict.get(difficulty, difficulty_dict["1"])).
difficulty_lookup_Default(reply) ==
    IF reply \in DOMAIN difficulty_dict
    THEN [ok |-> TRUE, cfg |-> difficulty_dict[reply]]
    ELSE [ok |-> TRUE, cfg |-> difficulty_dict["1"]]

\* difficulty_dict[difficulty]: the entry, or KeyError.
difficulty_lookup(reply) ==
    IF reply \in DOMAIN difficulty_dict
    THEN [ok |-> TRUE, cfg |-> difficulty_dict[reply]]
    ELSE [ok |-> FALSE, cfg |-> difficulty_dict["1"]]

\* Mutant: the rotation does not wrap, Mistral hands over to Claude.
agent_name_dict_NoWrap ==
    [a \in {"GPT", "Claude", "Mistral"} |->
        CASE a = "GPT" -> "Claude"
          [] a = "Claude" -> "Mistral"
          [] a = "Mistral" -> "Claude"]

agent_name_dict ==
    [a \in {"GPT", "Claude", "Mistral"} |->
        CASE a = "GPT" -> "Claude"
          [] a = "Claude" -> "Mistral"
          [] a = "Mistral" -> "GPT"]

\* The engine's merge of a node's update into a key: the new value replaces
\* the old one.
Overwrite(old, new) == new

\* -------------------------------------------------------------------- state

VARIABLES
    pc,                      \* the node the engine runs next
    prev,                    \* the node the engine ran last
    initial_response_agent,  \* GraphState keys
    responses,
    discarded_responses,
    threads,
    beams,
    revisions,
    difficulty,
    start,
    index,
    agent_response,
    done,
    final_response,
    heap,                    \* address -> thread dict
    sender,                  \* backend the last generation subgraph was entered with
    gen,                     \* number of texts generated so far
    off_scores,              \* replies of the scorer that differed from BaseScore
    difficulty_reply,        \* last result.content of the classifier
    difficulty_calls,        \* invocations of the classifier
    beam_calls,              \* invocations of beam_search_agent
    beam_in,                 \* state["responses"] as the last beam_search_agent call found it
    audit,                   \* every thread any beam_search_agent call discarded
    score_reply,             \* last result.content of the scorer
    summary_input,           \* the reasoning chains put into the final summary's prompt
    check_done_calls,        \* invocations of check_done
    node,                    \* generation subgraph: the node it runs next
    messages,                \* AgentState keys
    final_answer,
    caller,                  \* the backend the caller of the subgraph supplied
    path                     \* the nodes this instance of the subgraph has run

vars ==
    << pc, prev, initial_response_agent, responses, discarded_responses,
       threads, beams, revisions, difficulty, start, index, agent_response,
       done, final_response, heap, sender, gen, off_scores, difficulty_reply,
       difficulty_calls, beam_calls, beam_in, audit, score_reply,
       summary_input, check_done_calls, node, messages, final_answer,
       caller, path >>

config == << threads, beams, revisions, difficulty, start >>

ghosts == << difficulty_reply, difficulty_calls, beam_calls, beam_in, audit >>

prompts == << score_reply, summary_input >>

subgraph == << node, messages, final_answer, caller, path >>

\* ------------------------------------------------------------------ helpers

Content(hp, ref) == hp[ref].content

\* x["content"][-1]["score"]
LastScore(hp, ref) == Content(hp, ref)[Len(Content(hp, ref))].score

RECURSIVE InsertDesc_BeforeEqual(_, _, _)
\* Mutant: `ref` placed before the elements whose key equals its own, as an
\* ascending sort followed by reverse() leaves them.
InsertDesc_BeforeEqual(hp, sorted, ref) ==
    IF sorted = << >> THEN << ref >>
    ELSE IF LastScore(hp, Head(sorted)) > LastScore(hp, ref)
         THEN << Head(sorted) >> \o InsertDesc_BeforeEqual(hp, Tail(sorted), ref)
         ELSE << ref >> \o sorted

RECURSIVE InsertDesc(_, _, _)
\* `ref` placed after every element whose key is >= its own (s is the value
\* of `sorted`, bound so that it is computed once).
InsertDesc(hp, sorted, ref) ==
    CHOOSE r \in
        { IF s = << >> THEN << ref >>
          ELSE IF LastScore(hp, Head(s)) >= LastScore(hp, ref)
               THEN << Head(s) >> \o InsertDesc(hp, Tail(s), ref)
               ELSE << ref >> \o s : s \in {sorted} } : TRUE

RECURSIVE SortDescFrom(_, _, _)
SortDescFrom(hp, sorted, rest) ==
    IF rest = << >> THEN sorted
    ELSE SortDescFrom(hp, InsertDesc(hp, sorted, Head(rest)), Tail(rest))

\* Mutant: the list is not sorted at all.
SortDesc_Unsorted(hp, refs) == refs

\* responses.sort(key=lambda x: x["content"][-1]["score"], reverse=True):
\* descending by key, equal keys in their original order.
SortDesc(hp, refs) == SortDescFrom(hp, << >>, refs)

\* Mutant: the second loop is missing, no thread gets an extra clone.
CloneSources_NoRemainder(best, nthreads, nbeams) ==
    [j \in 1..(nbeams * (nthreads \div nbeams)) |->
        best[((j - 1) \div (nthreads \div nbeams)) + 1]]

\* Mutant: the extra clones go to the last kept threads (best_responses[-1-i]).
CloneSources_ExtraToLast(best, nthreads, nbeams) ==
    [j \in 1..(nbeams * (nthreads \div nbeams)) |->
        best[((j - 1) \div (nthreads \div nbeams)) + 1]]
    \o [i \in 1..(nthreads % nbeams) |-> best[nbeams + 1 - i]]

\* Mutant: the first loop runs range(threads // beams + 1).
CloneSources_OneMore(best, nthreads, nbeams) ==
    [j \in 1..(nbeams * ((nthreads \div nbeams) + 1)) |->
        best[((j - 1) \div ((nthreads \div nbeams) + 1)) + 1]]
    \o [i \in 1..(nthreads % nbeams) |-> best[i]]

\* The threads final_responses is built from, in the order of the appends.
CloneSources(best, nthreads, nbeams) ==
    [j \in 1..(nbeams * (nthreads \div nbeams)) |->
        best[((j - 1) \div (nthreads \div nbeams)) + 1]]
    \o [i \in 1..(nthreads % nbeams) |-> best[i]]

\* Mutant: final_responses.append(response), the dict itself and no copy.
DeepCopyAll_Shared(hp, srcs) == [heap |-> hp, refs |-> srcs]

\* copy.deepcopy of each source: a new dict per append.
DeepCopyAll(hp, srcs) ==
    [heap |-> hp \o [j \in 1..Len(srcs) |-> hp[srcs[j]]],
     refs |-> [j \in 1..Len(srcs) |-> Len(hp) + j]]

\* ------------------------------------------------------------------ routers

scorer_router(st, nthreads, resps) ==
    IF st # 0 \/ Len(resps) < nthreads
    THEN "initial_response_handler"
    ELSE "revised_response_handler"

\* Mutant: the bootstrap flag is tested before the population size.
initial_response_router_FlagFirst(st, resps, nthreads) ==
    IF st # 0 THEN "difficulty_assessment"
    ELSE IF Len(resps) < nthreads THEN "get_initial_response"
    ELSE "beam_search_agent"

initial_response_router(st, resps, nthreads) ==
    IF Len(resps) < nthreads THEN "get_initial_response"
    ELSE IF st # 0 THEN "difficulty_assessment"
    ELSE "beam_search_agent"

difficulty_router(resps, nthreads) ==
    IF Len(resps) < nthreads THEN "get_initial_response"
    ELSE "beam_search_agent"

\* Mutant: the end of the round is tested with > instead of ==.
revision_router_PastEnd(idx, nthreads, nrevisions, resps, hp) ==
    IF Len(Content(hp, resps[Len(resps)])) = nrevisions + 1 THEN "final_summary"
    ELSE IF idx > nthreads THEN "check_done"
    ELSE "get_revision_response"

\* Mutant: the budget test reads the first thread, responses[0].
revision_router_FirstThread(idx, nthreads, nrevisions, resps, hp) ==
    IF Len(Content(hp, resps[1])) = nrevisions + 1 THEN "final_summary"
    ELSE IF idx = nthreads THEN "check_done"
    ELSE "get_revision_response"

\* Mutant: the budget test is one entry late (== revisions + 2).
revision_router_OneLate(idx, nthreads, nrevisions, resps, hp) ==
    IF Len(Content(hp, resps[Len(resps)])) = nrevisions + 2 THEN "final_summary"
    ELSE IF idx = nthreads THEN "check_done"
    ELSE "get_revision_response"

\* Mutant: the budget test reads the thread just revised, responses[index - 1].
revision_router_AtCursor(idx, nthreads, nrevisions, resps, hp) ==
    IF Len(Content(hp, resps[idx])) = nrevisions + 1 THEN "final_summary"
    ELSE IF idx = nthreads THEN "check_done"
    ELSE "get_revision_response"

\* Mutant: the round is taken to be complete one thread early.
revision_router_OneEarly(idx, nthreads, nrevisions, resps, hp) ==
    IF Len(Content(hp, resps[Len(resps)])) = nrevisions + 1 THEN "final_summary"
    ELSE IF idx = nthreads - 1 THEN "check_done"
    ELSE "get_revision_response"

revision_router(idx, nthreads, nrevisions, resps, hp) ==
    IF Len(Content(hp, resps[Len(resps)])) = nrevisions + 1 THEN "final_summary"
    ELSE IF idx = nthreads THEN "check_done"
    ELSE "get_revision_response"

\* Mutant: the mapping of the two labels is swapped.
done_router_Swapped(d) == IF d THEN "beam_search_agent" ELSE "final_summary"

done_router(d) == IF d THEN "final_summary" ELSE "beam_search_agent"

\* --------------------------------------------------------------------- Init

Init ==
    /\ pc = "ask_question"
    /\ prev = "START"
    /\ initial_response_agent = "unset"
    /\ responses = << >>
    /\ discarded_responses = << >>
    /\ threads = UNSET
    /\ beams = UNSET
    /\ revisions = UNSET
    /\ difficulty = UNSET
    /\ start = UNSET
    /\ index = UNSET
    /\ agent_response = NoResponse
    /\ done = FALSE
    /\ final_response = UNSET
    /\ heap = << >>
    /\ sender = "unset"
    /\ gen = 0
    /\ off_scores = 0
    /\ difficulty_reply = "unset"
    /\ difficulty_calls = 0
    /\ beam_calls = 0
    /\ beam_in = << >>
    /\ audit = << >>
    /\ score_reply = NoScorerReply
    /\ summary_input = << >>
    /\ check_done_calls = 0
    /\ node = "idle"
    /\ messages = << >>
    /\ final_answer = UNSET
    /\ caller = "unset"
    /\ path = << >>

\* -------------------------------------------------------------------- nodes

ask_question ==
    /\ pc = "ask_question"
    /\ initial_response_agent' = Overwrite(initial_response_agent, "GPT")
    /\ responses' = Overwrite(responses, << >>)
    /\ threads' = Overwrite(threads, 3)
    /\ start' = Overwrite(start, 1)
    /\ pc' = "get_initial_response"
    /\ prev' = "ask_question"
    /\ UNCHANGED << check_done_calls, subgraph >>
    /\ UNCHANGED << discarded_responses, beams, revisions, difficulty, index,
                    agent_response, done, final_response, heap, sender, gen,
                    off_scores, ghosts, prompts >>

\* Mutant: the edge out of get_initial_response leads to the scorer.
get_initial_response_ToScorer ==
    /\ pc = "get_initial_response"
    /\ sender' = initial_response_agent
    /\ gen' = gen + 1
    /\ agent_response' = Overwrite(agent_response, join_graph(Text(gen + 1, sender')))
    /\ pc' = "scorer"
    /\ prev' = "get_initial_response"
    /\ UNCHANGED << check_done_calls, subgraph >>
    /\ UNCHANGED << initial_response_agent, responses, discarded_responses,
                    config, index, done, final_response, heap, off_scores,
                    ghosts, prompts >>

\* get_info_for_initial_response | initial_response_chain | join_graph
get_initial_response ==
    /\ pc = "get_initial_response"
    /\ sender' = initial_response_agent
    /\ gen' = gen + 1
    /\ agent_response' = Overwrite(agent_response, join_graph(Text(gen + 1, sender')))
    /\ pc' = "commenter"
    /\ prev' = "get_initial_response"
    /\ UNCHANGED << check_done_calls, subgraph >>
    /\ UNCHANGED << initial_response_agent, responses, discarded_responses,
                    config, index, done, final_response, heap, off_scores,
                    ghosts, prompts >>

\* Mutant: the backend is the next one of the initial rotation,
\* state["initial_response_agent"].
get_info_for_revision_response_Rotation(resps, idx, hp) == initial_response_agent

\* cur_response["agent_name"] of cur_response = responses[index]
get_info_for_revision_response(resps, idx, hp) == hp[resps[idx + 1]].agent_name

\* get_info_for_revision_response | revision_chain | join_graph
get_revision_response ==
    /\ pc = "get_revision_response"
    /\ index + 1 \in 1..Len(responses)
    /\ sender' = get_info_for_revision_response(responses, index, heap)
    /\ gen' = gen + 1
    /\ agent_response' = Overwrite(agent_response, join_graph(Text(gen + 1, sender')))
    /\ pc' = "commenter"
    /\ prev' = "get_revision_response"
    /\ UNCHANGED << check_done_calls, subgraph >>
    /\ UNCHANGED << initial_response_agent, responses, discarded_responses,
                    config, index, done, final_response, heap, off_scores,
                    ghosts, prompts >>

commenter ==
    /\ pc = "commenter"
    /\ agent_response' =
          Overwrite(agent_response,
                    [agent_response EXCEPT !.comments = agent_response.text.id])
    /\ pc' = "scorer"
    /\ prev' = "commenter"
    /\ UNCHANGED << check_done_calls, subgraph >>
    /\ UNCHANGED << initial_response_agent, responses, discarded_responses,
                    config, index, done, final_response, heap, sender, gen,
                    off_scores, ghosts, prompts >>

scorer ==
    /\ pc = "scorer"
    /\ prev' = "scorer"
    /\ UNCHANGED << check_done_calls, subgraph >>
    /\ \E reply \in ScorerReplies :
          /\ score_reply' = reply
          /\ LET parsed == float(reply)
             IN  IF parsed.ok
                 THEN /\ parsed.val # BaseScore => off_scores < MaxOffScores
                      /\ off_scores' = IF parsed.val # BaseScore
                                       THEN off_scores + 1 ELSE off_scores
                      /\ agent_response' =
                            Overwrite(agent_response,
                                      [agent_response EXCEPT !.score = parsed.val])
                      /\ pc' = scorer_router(start, threads, responses)
                 ELSE \* the ValueError ends the run; the node returns no update
                      /\ pc' = "error"
                      /\ UNCHANGED << agent_response, off_scores >>
    /\ UNCHANGED << initial_response_agent, responses, discarded_responses,
                    config, index, done, final_response, heap, sender, gen,
                    ghosts, summary_input >>

initial_response_handler ==
    /\ pc = "initial_response_handler"
    /\ heap' = Append(heap, [agent_name |-> initial_response_agent,
                             content |-> << agent_response >>])
    /\ responses' = Overwrite(responses, Append(responses, Len(heap) + 1))
    /\ initial_response_agent' =
          Overwrite(initial_response_agent,
                    agent_name_dict[initial_response_agent])
    /\ pc' = initial_response_router(start, responses', threads)
    /\ prev' = "initial_response_handler"
    /\ UNCHANGED << check_done_calls, subgraph >>
    /\ UNCHANGED << discarded_responses, config, index, agent_response, done,
                    final_response, sender, gen, off_scores, ghosts, prompts >>

difficulty_assessment ==
    /\ pc = "difficulty_assessment"
    /\ Len(responses) >= 3
    /\ prev' = "difficulty_assessment"
    /\ UNCHANGED << check_done_calls, subgraph >>
    /\ difficulty_calls' = difficulty_calls + 1
    /\ \E reply \in ClassifierReplies :
          /\ difficulty_reply' = reply
          /\ LET found == difficulty_lookup(reply)
             IN  IF found.ok
                 THEN /\ difficulty' = Overwrite(difficulty, found.cfg.difficulty)
                      /\ threads' = Overwrite(threads, found.cfg.threads)
                      /\ beams' = Overwrite(beams, found.cfg.beams)
                      /\ start' = Overwrite(start, found.cfg.start)
                      /\ revisions' = Overwrite(revisions, found.cfg.revisions)
                      /\ pc' = difficulty_router(responses, threads')
                 ELSE \* the KeyError ends the run; the node returns no update
                      /\ pc' = "error"
                      /\ UNCHANGED config
    /\ UNCHANGED << initial_response_agent, responses, discarded_responses,
                    index, agent_response, done, final_response, heap, sender,
                    gen, off_scores, beam_calls, beam_in, audit, prompts >>

beam_search_agent ==
    /\ pc = "beam_search_agent"
    /\ beams >= 1
    /\ Len(responses) >= beams
    /\ LET sorted == SortDesc(heap, responses)
           best_responses == SubSeq(sorted, 1, beams)
           bad_responses == SubSeq(sorted, beams + 1, Len(sorted))
           copies == DeepCopyAll(heap, CloneSources(best_responses, threads, beams))
       IN  /\ heap' = copies.heap
           /\ responses' = Overwrite(responses, copies.refs)
           /\ discarded_responses' = Overwrite(discarded_responses, bad_responses)
           /\ audit' = audit \o bad_responses
    /\ index' = Overwrite(index, 0)
    /\ beam_in' = responses
    /\ beam_calls' = beam_calls + 1
    /\ pc' = "get_revision_response"
    /\ prev' = "beam_search_agent"
    /\ UNCHANGED << check_done_calls, subgraph >>
    /\ UNCHANGED << initial_response_agent, config, agent_response, done,
                    final_response, sender, gen, off_scores, difficulty_reply,
                    difficulty_calls, prompts >>

\* Mutant: the revision is appended twice.
revised_response_handler_Twice ==
    /\ pc = "revised_response_handler"
    /\ index + 1 \in 1..Len(responses)
    /\ heap' = [heap EXCEPT ![responses[index + 1]].content =
                                Append(Append(@, agent_response), agent_response)]
    /\ responses' = Overwrite(responses, responses)
    /\ index' = Overwrite(index, index + 1)
    /\ pc' = revision_router(index', threads, revisions, responses', heap')
    /\ prev' = "revised_response_handler"
    /\ UNCHANGED << check_done_calls, subgraph >>
    /\ UNCHANGED << initial_response_agent, discarded_responses, config,
                    agent_response, done, final_response, sender, gen,
                    off_scores, ghosts, prompts >>

\* Mutant: the revision takes the place of the newest entry
\* (responses[index]["content"][-1] = agent_response).
revised_response_handler_Replace ==
    /\ pc = "revised_response_handler"
    /\ index + 1 \in 1..Len(responses)
    /\ heap' = [heap EXCEPT ![responses[index + 1]].content =
                                [@ EXCEPT ![Len(@)] = agent_response]]
    /\ responses' = Overwrite(responses, responses)
    /\ index' = Overwrite(index, index + 1)
    /\ pc' = revision_router(index', threads, revisions, responses', heap')
    /\ prev' = "revised_response_handler"
    /\ UNCHANGED << check_done_calls, subgraph >>
    /\ UNCHANGED << initial_response_agent, discarded_responses, config,
                    agent_response, done, final_response, sender, gen,
                    off_scores, ghosts, prompts >>

revised_response_handler ==
    /\ pc = "revised_response_handler"
    /\ index + 1 \in 1..Len(responses)
    /\ heap' = [heap EXCEPT ![responses[index + 1]].content =
                                Append(@, agent_response)]
    /\ responses' = Overwrite(responses, responses)
    /\ index' = Overwrite(index, index + 1)
    /\ pc' = revision_router(index', threads, revisions, responses', heap')
    /\ prev' = "revised_response_handler"
    /\ UNCHANGED << check_done_calls, subgraph >>
    /\ UNCHANGED << initial_response_agent, discarded_responses, config,
                    agent_response, done, final_response, sender, gen,
                    off_scores, ghosts, prompts >>

check_done ==
    /\ pc = "check_done"
    /\ \E reply \in CheckDoneReplies :
          /\ done' = Overwrite(done, reply = "PROCESS DONE")
          /\ pc' = done_router(done')
    /\ check_done_calls' = check_done_calls + 1
    /\ prev' = "check_done"
    /\ UNCHANGED subgraph
    /\ UNCHANGED << initial_response_agent, responses, discarded_responses,
                    config, index, agent_response, final_response, heap,
                    sender, gen, off_scores, ghosts, prompts >>

\* Mutant: only content[-1] of every thread goes into the prompt.
summary_chains_LastOnly(resps, hp) ==
    [p \in 1..Len(resps) |-> << Content(hp, resps[p])[Len(Content(hp, resps[p]))] >>]

\* responses = [response["content"] for response in responses]
summary_chains(resps, hp) == [p \in 1..Len(resps) |-> Content(hp, resps[p])]

\* Mutant: every chain is cut down to its final response in place
\* (response["content"] = response["content"][-1:]).
final_summary_Trim ==
    /\ pc = "final_summary"
    /\ summary_input' = summary_chains(responses, heap)
    /\ heap' = [ref \in 1..Len(heap) |->
                  IF \E p \in 1..Len(responses) : responses[p] = ref
                  THEN [heap[ref] EXCEPT !.content = << @[Len(@)] >>]
                  ELSE heap[ref]]
    /\ gen' = gen + 1
    /\ final_response' = Overwrite(final_response, gen + 1)
    /\ pc' = "END"
    /\ prev' = "final_summary"
    /\ UNCHANGED << check_done_calls, subgraph >>
    /\ UNCHANGED << initial_response_agent, responses, discarded_responses,
                    config, index, agent_response, done, sender,
                    off_scores, ghosts, score_reply >>

final_summary ==
    /\ pc = "final_summary"
    /\ summary_input' = summary_chains(responses, heap)
    /\ gen' = gen + 1
    /\ final_response' = Overwrite(final_response, gen + 1)
    /\ pc' = "END"
    /\ prev' = "final_summary"
    /\ UNCHANGED << check_done_calls, subgraph >>
    /\ UNCHANGED << initial_response_agent, responses, discarded_responses,
                    config, index, agent_response, done, heap, sender,
                    off_scores, ghosts, score_reply >>

Next ==
    \/ ask_question
    \/ get_initial_response
    \/ get_revision_response
    \/ commenter
    \/ scorer
    \/ initial_response_handler
    \/ difficulty_assessment
    \/ beam_search_agent
    \/ revised_response_handler
    \/ check_done
    \/ final_summary

Spec == Init /\ [][Next]_vars

\* The engine runs the node that is next: a run stops only at END or in an
\* exception.
FairSpec == Spec /\ WF_vars(Next)

\* Mutant: beam_search_agent has a second edge, to check_done.
Triggered_TwoEdges ==
    CASE prev = "START" -> {"ask_question"}
      [] prev = "ask_question" -> {"get_initial_response"}
      [] prev = "get_initial_response" -> {"commenter"}
      [] prev = "get_revision_response" -> {"commenter"}
      [] prev = "commenter" -> {"scorer"}
      [] prev = "scorer" -> {scorer_router(start, threads, responses)}
      [] prev = "initial_response_handler" ->
            {initial_response_router(start, responses, threads)}
      [] prev = "difficulty_assessment" -> {difficulty_router(responses, threads)}
      [] prev = "beam_search_agent" -> {"get_revision_response", "check_done"}
      [] prev = "revised_response_handler" ->
            {revision_router(index, threads, revisions, responses, heap)}
      [] prev = "check_done" -> {done_router(done)}
      [] prev = "final_summary" -> {"END"}

\* The nodes the engine starts next: the targets of the edges out of the node
\* that ran last, the conditional ones decided on the state its update was
\* merged into.
Triggered ==
    CASE prev = "START" -> {"ask_question"}
      [] prev = "ask_question" -> {"get_initial_response"}
      [] prev = "get_initial_response" -> {"commenter"}
      [] prev = "get_revision_response" -> {"commenter"}
      [] prev = "commenter" -> {"scorer"}
      [] prev = "scorer" -> {scorer_router(start, threads, responses)}
      [] prev = "initial_response_handler" ->
            {initial_response_router(start, responses, threads)}
      [] prev = "difficulty_assessment" -> {difficulty_router(responses, threads)}
      [] prev = "beam_search_agent" -> {"get_revision_response"}
      [] prev = "revised_response_handler" ->
            {revision_router(index, threads, revisions, responses, heap)}
      [] prev = "check_done" -> {done_router(done)}
      [] prev = "final_summary" -> {"END"}

\* ------------------------------------------------ the generation subgraph

\* Tool rounds one instance of the subgraph goes through at most.
MaxToolRounds == 2

\* Tool calls one message of a backend requests at most.
MaxToolCalls == 1

Backends == {"GPT", "Claude", "Mistral"}

HumanMessage == [type |-> "human", name |-> "unset", tool_calls |-> 0]

AIMessage(name, ncalls) == [type |-> "ai", name |-> name, tool_calls |-> ncalls]

ToolMessage == [type |-> "tool", name |-> "unset", tool_calls |-> 0]

\* AgentState: a node's messages are appended to the trace.
Add(old, new) == old \o new

\* Everything of the main graph but sender, which the subgraph has as a key
\* of its own state.
outer ==
    << pc, prev, initial_response_agent, responses, discarded_responses,
       config, index, agent_response, done, final_response, heap, gen,
       off_scores, ghosts, prompts, check_done_calls >>

\* Mutant: the test of last_message.tool_calls is negated.
router_tools_Negated(msgs) ==
    IF msgs[Len(msgs)].tool_calls > 0 THEN "__end__" ELSE "call_tool"

router_tools(msgs) ==
    IF msgs[Len(msgs)].tool_calls > 0 THEN "call_tool" ELSE "__end__"

\* {"call_tool": "call_tool", "__end__": "Summary"}
tools_edge(label) == IF label = "call_tool" THEN "call_tool" ELSE "Summary"

\* Conditional edge from START: lambda x: x["sender"], every name to its node.
start_edge(s) == s

\* Mutant: the mapping of the edge is shifted by one backend.
call_tool_edge_Shifted(s) == agent_name_dict[s]

\* Conditional edge from call_tool: lambda x: x["sender"], every name to its node.
call_tool_edge(s) == s

\* Tool rounds of the running instance so far.
ToolRounds == Cardinality({i \in 1..Len(path) : path[i] = "call_tool"})

\* get_info_for_initial_response | enter_chain, and the edge from START
enter_chain ==
    /\ pc = "get_initial_response"
    /\ node = "idle"
    /\ caller' = initial_response_agent
    /\ messages' = << HumanMessage >>
    /\ sender' = caller'
    /\ final_answer' = UNSET
    /\ node' = start_edge(sender')
    /\ path' = << >>
    /\ UNCHANGED outer

\* get_info_for_revision_response | enter_chain_revision, and the edge from START
enter_chain_revision ==
    /\ pc = "get_revision_response"
    /\ node = "idle"
    /\ index + 1 \in 1..Len(responses)
    /\ caller' = get_info_for_revision_response(responses, index, heap)
    /\ messages' = << HumanMessage >>
    /\ sender' = caller'
    /\ final_answer' = UNSET
    /\ node' = start_edge(sender')
    /\ path' = << >>
    /\ UNCHANGED outer

\* The nodes GPT, Claude, Mistral of either workflow.
agent_node ==
    /\ node \in Backends
    /\ \E ncalls \in 0..MaxToolCalls :
          /\ ncalls > 0 => ToolRounds < MaxToolRounds
          /\ messages' = Add(messages, << AIMessage(node, ncalls) >>)
    /\ sender' = Overwrite(sender, node)
    /\ node' = tools_edge(router_tools(messages'))
    /\ path' = Append(path, node)
    /\ UNCHANGED << final_answer, caller, outer >>

\* ToolNode(tools): one ToolMessage for every tool call of the last message.
tool_node ==
    /\ node = "call_tool"
    /\ messages' = Add(messages,
                       [i \in 1..messages[Len(messages)].tool_calls |-> ToolMessage])
    /\ node' = call_tool_edge(sender)
    /\ path' = Append(path, "call_tool")
    /\ UNCHANGED << sender, final_answer, caller, outer >>

\* Summary, the edge to END, and join_graph on the state the subgraph
\* returns; the instance and its state end here.
summary_node ==
    /\ node = "Summary"
    /\ gen' = gen + 1
    /\ final_answer' = Overwrite(final_answer, Text(gen + 1, sender))
    /\ agent_response' = Overwrite(agent_response, join_graph(final_answer'))
    /\ prev' = pc
    /\ pc' = "commenter"
    /\ node' = "idle"
    /\ messages' = << >>
    /\ caller' = "unset"
    /\ path' = << >>
    /\ UNCHANGED << initial_response_agent, responses, discarded_responses,
                    config, index, done, final_response, heap, sender,
                    off_scores, ghosts, prompts, check_done_calls >>

\* The main graph with the nodes of the two subgraphs as steps of their own.
NextGen ==
    \/ ask_question
    \/ enter_chain
    \/ enter_chain_revision
    \/ agent_node
    \/ tool_node
    \/ summary_node
    \/ commenter
    \/ scorer
    \/ initial_response_handler
    \/ difficulty_assessment
    \/ beam_search_agent
    \/ revised_response_handler
    \/ check_done
    \/ final_summary

SpecGen == Init /\ [][NextGen]_vars

\* ------------------------------------------------- selection on its own

Rotation == << "GPT", "Claude", "Mistral" >>

\* A scored entry of a history.
Entry(n, by, sc) == [text |-> Text(n, by), comments |-> n, score |-> sc]

SelectScores == 1..MaxSelectScore

\* beam_search_agent entered with any population of n threads and any
\* 1 <= beams <= n, as after a first round of revisions: every thread has an
\* initial entry and a revision, and the newest scores are any scores (the
\* initial ones rank the threads the other way round).
InitSelect ==
    \E n \in 1..MaxThreads :
    \E b \in 1..n :
    \E sc \in [1..n -> SelectScores] :
        /\ pc = "beam_search_agent"
        /\ prev = "check_done"
        /\ initial_response_agent = Rotation[(n % 3) + 1]
        /\ responses = [p \in 1..n |-> p]
        /\ discarded_responses = << >>
        /\ threads = n
        /\ beams = b
        /\ revisions = 2
        /\ difficulty = UNSET
        /\ start = 0
        /\ index = n
        /\ agent_response = Entry(n, Rotation[((n - 1) % 3) + 1], sc[n])
        /\ done = FALSE
        /\ final_response = UNSET
        /\ heap = [p \in 1..n |->
                     [agent_name |-> Rotation[((p - 1) % 3) + 1],
                      content |->
                         << Entry(n + p, Rotation[((p - 1) % 3) + 1],
                                  MaxSelectScore + 1 - sc[p]),
                            Entry(p, Rotation[((p - 1) % 3) + 1], sc[p]) >> ]]
        /\ sender = Rotation[((n - 1) % 3) + 1]
        /\ gen = 2 * n
        /\ off_scores = 0
        /\ difficulty_reply = "unset"
        /\ difficulty_calls = 0
        /\ beam_calls = 0
        /\ beam_in = << >>
        /\ audit = << >>
        /\ score_reply = [numeral |-> TRUE, val |-> sc[n]]
        /\ summary_input = << >>
        /\ check_done_calls = 1
        /\ node = "idle"
        /\ messages = << >>
        /\ final_answer = UNSET
        /\ caller = "unset"
        /\ path = << >>

NextSelect == beam_search_agent

SpecSelect == InitSelect /\ [][NextSelect]_vars

\* ------------------------------------------------------------------- claims

HistLen(ref) == Len(heap[ref].content)

Score(ref) == LastScore(heap, ref)

\* The id of the newest text of a thread.
NewestId(ref) == heap[ref].content[HistLen(ref)].text.id

Positions == 1..Len(responses)

\* C1: from the first beam_search_agent call on, state["responses"] holds
\* exactly `threads` threads, whatever node ran last.
C1_PopulationSize == beam_calls > 0 => Len(responses) = threads

C1_Witness ==
    /\ beam_calls = 2
    /\ threads = 5
    /\ Len(responses) = 5
    /\ pc = "END"

\* The input thread at position p of the last beam_search_agent call.
Input(p) == heap[beam_in[p]]

PerKept == threads \div beams

Extra == threads % beams

\* The kept thread of rank i (1-based), read off the head of its run of clones.
Kept(i) == heap[responses[(i - 1) * PerKept + 1]]

KeptScore(i) == Kept(i).content[Len(Kept(i).content)].score

IsKept(t) == \E i \in 1..beams : Kept(i) = t

\* C2: after beam_search_agent the population is beams runs of
\* threads \div beams equal threads, followed by one more clone of each of the
\* first threads % beams kept threads; the kept threads are beams different
\* input threads in descending order of their newest score, and no input
\* thread left out scores higher than a kept one.
C2_SelectShape ==
    prev = "beam_search_agent" =>
        /\ Len(responses) = threads
        /\ \A i \in 1..beams : \A t \in 1..PerKept :
              heap[responses[(i - 1) * PerKept + t]] = Kept(i)
        /\ \A i \in 1..Extra : heap[responses[beams * PerKept + i]] = Kept(i)
        /\ \A i \in 1..beams : \E p \in 1..Len(beam_in) : Input(p) = Kept(i)
        /\ \A i, j \in 1..beams : i # j => Kept(i) # Kept(j)
        /\ \A i \in 1..(beams - 1) : KeptScore(i) >= KeptScore(i + 1)
        /\ \A p \in 1..Len(beam_in) :
              ~IsKept(Input(p)) => Score(beam_in[p]) <= KeptScore(beams)

\* Threads A..E with five different scores in descending order, beams = 3,
\* threads = 5: the result is A, B, C, A', B'.
C2_Witness ==
    /\ prev = "beam_search_agent"
    /\ threads = 5
    /\ beams = 3
    /\ \A p \in 1..4 : Score(beam_in[p]) > Score(beam_in[p + 1])
    /\ [p \in 1..5 |-> NewestId(responses[p])] = << 1, 2, 3, 1, 2 >>
    /\ [p \in 1..2 |-> NewestId(discarded_responses[p])] = << 4, 5 >>

\* The position a thread had in the input of the last beam_search_agent call.
InPos(t) == CHOOSE p \in 1..Len(beam_in) : Input(p) = t

\* C3: of two input threads with equal newest scores the earlier one ranks
\* first: among the kept threads, between a kept and a discarded thread, and
\* among the clones of each of the two runs of final_responses.
C3_StableSelection ==
    prev = "beam_search_agent" =>
        /\ \A i, j \in 1..beams :
              (i < j /\ KeptScore(i) = KeptScore(j)) => InPos(Kept(i)) < InPos(Kept(j))
        /\ \A i \in 1..beams : \A d \in 1..Len(discarded_responses) :
              KeptScore(i) = Score(discarded_responses[d])
                 => InPos(Kept(i)) < InPos(heap[discarded_responses[d]])
        /\ \A a, b \in Positions :
              ( /\ a < b
                /\ (b <= beams * PerKept \/ a > beams * PerKept)
                /\ Score(responses[a]) = Score(responses[b]) )
                 => InPos(heap[responses[a]]) <= InPos(heap[responses[b]])

\* The input's first thread scores lowest and its other three tie: the second
\* and third are kept, the fourth is discarded before the first.
C3_Witness ==
    /\ prev = "beam_search_agent"
    /\ beams = 2
    /\ threads = 4
    /\ KeptScore(1) = KeptScore(2)
    /\ Len(discarded_responses) = 2
    /\ Score(discarded_responses[1]) = KeptScore(2)
    /\ Score(discarded_responses[2]) < KeptScore(2)
    /\ Score(beam_in[1]) < KeptScore(2)
    /\ heap[discarded_responses[1]] = Input(4)

\* C4 as claimed: when the thread just revised (the one before the cursor)
\* has revisions + 1 entries, the next node is final_summary.
C4_ExitAtCursorThread ==
    (prev = "revised_response_handler" /\ HistLen(responses[index]) = revisions + 1)
        => pc = "final_summary"

\* C4, amended: after revised_response_handler the next node is final_summary
\* exactly when the LAST thread of the population has revisions + 1 entries,
\* and then the cursor is at the end of the round and every thread has been
\* revised up to the budget.
C4_ExitAtLastThread ==
    prev = "revised_response_handler" =>
        /\ pc = "final_summary" <=> HistLen(responses[Len(responses)]) = revisions + 1
        /\ pc = "final_summary" =>
              /\ index = threads
              /\ \A p \in Positions : HistLen(responses[p]) = revisions + 1

\* revisions = 1, the thread at cursor 2 has reached 2 entries, and the round
\* goes on with the next thread.
C4_Witness ==
    /\ prev = "revised_response_handler"
    /\ revisions = 1
    /\ index = 3
    /\ HistLen(responses[3]) = 2
    /\ HistLen(responses[4]) = 1
    /\ pc = "get_revision_response"

\* C5: whenever check_done is the node to run, all threads of the population
\* have histories of the same length.
C5_RoundBoundary ==
    pc = "check_done" =>
        \A p, q \in Positions : HistLen(responses[p]) = HistLen(responses[q])

C5_Witness ==
    /\ pc = "check_done"
    /\ threads = 5
    /\ beam_calls = 2
    /\ \A p \in Positions : HistLen(responses[p]) = 3

\* C6 as claimed: state["discarded_responses"] holds every thread that any
\* beam_search_agent call of the run discarded.
C6_AuditTrailKept ==
    \A k \in 1..Len(audit) :
        \E d \in 1..Len(discarded_responses) : discarded_responses[d] = audit[k]

\* C7: revised_response_handler appends to the history of the thread at the
\* cursor and leaves every other thread as it was: the other positions of the
\* population, the discarded threads, and the threads the last
\* beam_search_agent call copied from.
C7_IndependentCopies ==
    [][ pc = "revised_response_handler" =>
          /\ Len(heap'[responses[index + 1]].content) = HistLen(responses[index + 1]) + 1
          /\ \A p \in Positions \ {index + 1} : heap'[responses[p]] = heap[responses[p]]
          /\ \A d \in 1..Len(discarded_responses) :
                heap'[discarded_responses[d]] = heap[discarded_responses[d]]
          /\ \A k \in 1..Len(audit) : heap'[audit[k]] = heap[audit[k]]
          /\ \A o \in 1..Len(beam_in) : heap'[beam_in[o]] = heap[beam_in[o]]
      ]_vars

\* Two clones of one kept thread, the first revised and the second not yet.
C7_Witness ==
    /\ prev = "revised_response_handler"
    /\ threads = 5
    /\ index = 1
    /\ heap[responses[1]].content[1] = heap[responses[4]].content[1]
    /\ HistLen(responses[1]) = HistLen(responses[4]) + 1
    /\ \E o \in 1..Len(beam_in) :
          /\ heap[beam_in[o]].content[1] = heap[responses[1]].content[1]
          /\ HistLen(beam_in[o]) = HistLen(responses[4])

\* The table of section 4.3 of the specification.
TierTable(t) ==
    CASE t = 1 -> << 3, 3, 4 >>
      [] t = 2 -> << 5, 3, 3 >>
      [] t = 3 -> << 7, 3, 2 >>
      [] t = 4 -> << 9, 3, 1 >>

TierOf(reply) ==
    CASE reply = "1" -> 1 [] reply = "2" -> 2 [] reply = "3" -> 3 [] reply = "4" -> 4

\* C8: a classifier reply 1..4 always yields a config, the one of the table
\* for that tier, which then stays; 1 <= beams <= threads and revisions >= 0.
C8_TierConfig ==
    /\ (prev = "difficulty_assessment" /\ difficulty_reply \in {"1", "2", "3", "4"})
          => (pc # "error" /\ start = 0)
    /\ start = 0 =>
          /\ difficulty_reply \in {"1", "2", "3", "4"}
          /\ difficulty = TierOf(difficulty_reply)
          /\ << threads, beams, revisions >> = TierTable(difficulty)
          /\ 1 <= beams
          /\ beams <= threads
          /\ revisions >= 0

C8_Witness ==
    /\ pc = "END"
    /\ difficulty = 2
    /\ << threads, beams, revisions >> = << 5, 3, 3 >>

\* C9: a classifier reply outside 1..4 ends the run in difficulty_assessment:
\* the config keys and the population stay as they were (threads 3, start 1,
\* beams and revisions never written), no beam_search_agent call has been
\* made, and no node runs afterwards.
C9_BadTierAborts ==
    [][ /\ (pc = "difficulty_assessment" /\ difficulty_reply' \notin {"1", "2", "3", "4"})
            => /\ pc' = "error"
               /\ UNCHANGED << config, responses, heap, discarded_responses >>
               /\ threads' = 3
               /\ start' = 1
               /\ beams' = UNSET
               /\ revisions' = UNSET
               /\ beam_calls' = 0
        /\ pc = "error" => pc' = "error"
      ]_vars

C9_Witness ==
    /\ pc = "error"
    /\ prev = "difficulty_assessment"
    /\ difficulty_reply = "5"
    /\ Len(responses) = 3

FullyScored(e) == e.text.id # UNSET /\ e.comments # UNSET /\ e.score # UNSET

\* C10: the classifier is never invoked twice; it has been invoked once in
\* every state from which selection, revision or the final summary proceeds;
\* and when it is the node to run, the population is three threads of one
\* fully scored entry each, generated by GPT, Claude and Mistral in this order.
C10_ClassifierOnceAfterBootstrap ==
    /\ difficulty_calls <= 1
    /\ pc = "difficulty_assessment" =>
          /\ difficulty_calls = 0
          /\ Len(responses) = 3
          /\ [p \in 1..3 |-> heap[responses[p]].agent_name] = << "GPT", "Claude", "Mistral" >>
          /\ \A p \in 1..3 :
                /\ HistLen(responses[p]) = 1
                /\ FullyScored(heap[responses[p]].content[1])
                /\ heap[responses[p]].content[1].text.by = heap[responses[p]].agent_name
    /\ pc \in {"beam_search_agent", "get_revision_response", "revised_response_handler",
                "check_done", "final_summary", "END"}
          => difficulty_calls = 1
    /\ difficulty_calls = 0 => Len(responses) <= 3

C10_Witness ==
    /\ prev = "difficulty_assessment"
    /\ difficulty_calls = 1
    /\ pc = "get_initial_response"
    /\ Len(responses) = 3

\* C11: before the first beam_search_agent call the thread at position p was
\* generated by, and carries the name of, the p-th backend of the rotation
\* GPT, Claude, Mistral, GPT, ...; after the classification generation goes
\* on only while the population is smaller than `threads` (not at all for
\* tier 1), and the first beam_search_agent call finds exactly `threads`
\* threads, one per text generated.
C11_InitialRotation ==
    /\ beam_calls = 0 =>
          \A p \in Positions :
             /\ heap[responses[p]].agent_name = Rotation[((p - 1) % 3) + 1]
             /\ HistLen(responses[p]) = 1
             /\ heap[responses[p]].content[1].text.by = Rotation[((p - 1) % 3) + 1]
    /\ (beam_calls = 0 /\ start = 0) => Len(responses) <= threads
    /\ (beam_calls = 0 /\ start = 0 /\ pc = "get_initial_response") =>
          /\ Len(responses) < threads
          /\ initial_response_agent = Rotation[(Len(responses) % 3) + 1]
    /\ (prev = "difficulty_assessment" /\ pc # "error") =>
          pc = (IF threads = 3 THEN "beam_search_agent" ELSE "get_initial_response")
    /\ (pc = "beam_search_agent" /\ beam_calls = 0) =>
          (Len(responses) = threads /\ gen = threads)
    /\ beam_calls >= 1 => Len(beam_in) = threads

C11_Witness ==
    /\ pc = "beam_search_agent"
    /\ beam_calls = 0
    /\ threads = 7
    /\ [p \in 1..7 |-> heap[responses[p]].agent_name]
          = << "GPT", "Claude", "Mistral", "GPT", "Claude", "Mistral", "GPT" >>

\* C12: every entry of every thread (active, discarded or copied from) was
\* generated by the backend the thread names, the one of its initial
\* response; a revision subgraph is entered with the name of the thread at
\* the cursor.
C12_RevisionBackend ==
    /\ \A ref \in 1..Len(heap) : \A k \in 1..HistLen(ref) :
          heap[ref].content[k].text.by = heap[ref].agent_name
    /\ prev = "get_revision_response" =>
          /\ sender = heap[responses[index + 1]].agent_name
          /\ sender = heap[responses[index + 1]].content[1].text.by
          /\ agent_response.text.by = sender

\* After two selections a Claude thread has two revisions.
C12_Witness ==
    /\ beam_calls = 2
    /\ prev = "revised_response_handler"
    /\ \E p \in Positions :
          /\ heap[responses[p]].agent_name = "Claude"
          /\ HistLen(responses[p]) = 3
          /\ \E q \in Positions : heap[responses[q]].agent_name = "GPT"

\* C13: check_done runs only right after revised_response_handler has
\* committed a scored revision with index = threads; after it the next node
\* is final_summary when done and beam_search_agent when not, and after
\* beam_search_agent index is 0 and the revision of thread 0 is next.
C13_GateAtRoundBoundary ==
    /\ pc = "check_done" =>
          /\ index = threads
          /\ prev = "revised_response_handler"
          /\ heap[responses[index]].content[HistLen(responses[index])] = agent_response
          /\ agent_response.comments # UNSET
          /\ agent_response.score # UNSET
    /\ prev = "check_done" =>
          pc = (IF done THEN "final_summary" ELSE "beam_search_agent")
    /\ prev = "beam_search_agent" => (index = 0 /\ pc = "get_revision_response")
    /\ (prev = "get_revision_response" /\ index = 0) =>
          sender = heap[responses[1]].agent_name

C13_Witness ==
    /\ prev = "beam_search_agent"
    /\ beam_calls = 2
    /\ ~done
    /\ index = 0

\* C14: with beams = threads or beams = 1 nothing beam_search_agent
\* evaluates fails (the divisor is not 0, every best_responses[i] it reads
\* exists); with beams = threads every input thread is in the result exactly
\* once and nothing is discarded; with beams = 1 the result is `threads`
\* copies of one input thread that no input thread outscores.
C14_EdgeWidths ==
    /\ (pc = "beam_search_agent" /\ (beams = threads \/ beams = 1)) =>
          /\ beams >= 1
          /\ threads % beams <= Len(SubSeq(responses, 1, beams))
          /\ \A p \in Positions : HistLen(responses[p]) >= 1
    /\ (prev = "beam_search_agent" /\ beams = threads) =>
          /\ Len(responses) = threads
          /\ discarded_responses = << >>
          /\ \A p \in 1..Len(beam_in) :
                Cardinality({q \in Positions : heap[responses[q]] = Input(p)}) = 1
    /\ (prev = "beam_search_agent" /\ beams = 1) =>
          /\ Len(responses) = threads
          /\ \A q \in Positions : heap[responses[q]] = heap[responses[1]]
          /\ \E p \in 1..Len(beam_in) : Input(p) = heap[responses[1]]
          /\ \A p \in 1..Len(beam_in) : Score(beam_in[p]) <= Score(responses[1])

\* Three threads scored like 8.0, 5.0, 9.0 with beams = threads = 3: all
\* three are kept, each once, best first.
C14_Witness ==
    /\ prev = "beam_search_agent"
    /\ threads = 3
    /\ beams = 3
    /\ Score(beam_in[3]) > Score(beam_in[1])
    /\ Score(beam_in[1]) > Score(beam_in[2])
    /\ [p \in 1..3 |-> NewestId(responses[p])] = << 3, 1, 2 >>
    /\ discarded_responses = << >>

\* C15: final_summary leaves the population as it is (the list of threads,
\* every thread, the discarded threads) and the config and cursor too; it
\* writes the final answer and ends the run.
C15_SummaryFrame ==
    [][ pc = "final_summary" =>
          /\ UNCHANGED << responses, heap, discarded_responses, config, index >>
          /\ final_response' # UNSET
          /\ pc' = "END"
      ]_vars

C15_Witness ==
    /\ pc = "END"
    /\ final_response # UNSET
    /\ Len(discarded_responses) = 2
    /\ \A p \in Positions : HistLen(responses[p]) = 3

\* C16 as claimed: the chains in the prompt of final_summary hold the final
\* entry of each thread and nothing else.
C16_OnlyFinalEntries ==
    prev = "final_summary" =>
        \A p \in Positions :
            summary_input[p]
               = << heap[responses[p]].content[HistLen(responses[p])] >>

\* C16, amended: the prompt of final_summary holds, for every thread of the
\* population and in its order, the whole history of the thread, the earlier
\* entries included.
C16_WholeHistories ==
    prev = "final_summary" =>
        /\ Len(summary_input) = Len(responses)
        /\ \A p \in Positions : summary_input[p] = heap[responses[p]].content

C16_Witness ==
    /\ prev = "final_summary"
    /\ Len(summary_input) = 5
    /\ \A p \in 1..5 : Len(summary_input[p]) = 3

\* C17: a reply of the scorer that is no numeral ends the run in the scorer:
\* no history and no list of threads changes, the cursor and the response
\* being scored stay as they are, and no node runs afterwards.
C17_BadScoreAborts ==
    [][ /\ (pc = "scorer" /\ ~score_reply'.numeral)
            => /\ pc' = "error"
               /\ UNCHANGED << heap, responses, discarded_responses, index,
                               config, agent_response, initial_response_agent >>
        /\ (pc = "error" /\ prev = "scorer") => UNCHANGED vars
      ]_vars

\* The score of the revision of the second thread of a round is no numeral.
C17_Witness ==
    /\ pc = "error"
    /\ prev = "scorer"
    /\ ~score_reply.numeral
    /\ beam_calls = 1
    /\ index = 1
    /\ agent_response.score = UNSET
    /\ \A p \in Positions : p # 1 => HistLen(responses[p]) = 1

\* C18: every entry of every history has its text, comments and score, and
\* so has the response a handler is about to append.
C18_CommittedEntriesComplete ==
    /\ \A ref \in 1..Len(heap) : \A k \in 1..HistLen(ref) :
          FullyScored(heap[ref].content[k])
    /\ pc \in {"initial_response_handler", "revised_response_handler"}
          => FullyScored(agent_response)

C18_Witness ==
    /\ pc = "check_done"
    /\ Len(discarded_responses) = 4
    /\ \A p \in Positions : HistLen(responses[p]) = 2

\* C19: once beam_search_agent has run, 0 <= index <= threads;
\* get_revision_response is never the next node with index = threads; index
\* changes only in beam_search_agent, to 0, and in revised_response_handler,
\* by +1.
C19_CursorRange ==
    [][ /\ beam_calls' > 0 => (0 <= index' /\ index' <= threads')
        /\ pc' = "get_revision_response" => index' < threads'
        /\ index' # index =>
              \/ pc = "beam_search_agent"
              \/ pc = "revised_response_handler"
        /\ pc = "beam_search_agent" => index' = 0
        /\ pc = "revised_response_handler" => index' = index + 1
      ]_vars

C19_Witness ==
    /\ prev = "beam_search_agent"
    /\ beam_calls = 3
    /\ index = 0
    /\ threads = 5

\* C20: after the k-th beam_search_agent call every thread has k entries,
\* plus one for exactly the positions before the cursor; check_done is next
\* only when the cursor has passed every position; and no step makes the
\* history at a position shorter.
C20_OneRevisionPerRound ==
    [][ /\ \A p \in 1..Len(responses) :
              p <= Len(responses') =>
                 Len(heap'[responses'[p]].content) >= Len(heap[responses[p]].content)
        /\ beam_calls' > 0 =>
              \A p \in 1..Len(responses') :
                 Len(heap'[responses'[p]].content)
                    = beam_calls' + (IF p <= index' THEN 1 ELSE 0)
        /\ pc' = "check_done" => index' = threads'
      ]_vars

C20_Witness ==
    /\ pc = "check_done"
    /\ beam_calls = 3
    /\ threads = 3
    /\ \A p \in Positions : HistLen(responses[p]) = 4

\* C21: an instance of the generation subgraph starts at the backend its
\* caller supplied (initial_response_agent, or the agent_name of the thread at
\* the cursor), call_tool hands control back to the backend whose message
\* requested the tools, and every backend node the instance runs is that one
\* backend.
C21_SameBackend ==
    [][ /\ (node = "idle" /\ node' # "idle") =>
              /\ node' = caller'
              /\ caller' = (IF pc = "get_initial_response"
                            THEN initial_response_agent
                            ELSE heap[responses[index + 1]].agent_name)
        /\ node = "call_tool" =>
              /\ node' = path[Len(path)]
              /\ node' = messages[Len(messages)].name
        /\ \A i \in 1..Len(path') : path'[i] \in Backends => path'[i] = caller'
      ]_vars

\* A revision by Claude with two tool rounds.
C21_Witness ==
    /\ pc = "get_revision_response"
    /\ node = "Summary"
    /\ path = << "Claude", "call_tool", "Claude", "call_tool", "Claude" >>

\* C22: after a backend node the next node is call_tool if the message it
\* appended requests a tool call and Summary if not; Summary runs only after
\* such a message, never twice in an instance, every instance ends by it, and
\* after it the subgraph has returned and the main graph goes on to the
\* commenter.
C22_ToolsOrSummary ==
    [][ /\ node \in Backends =>
              /\ Len(messages') = Len(messages) + 1
              /\ messages'[Len(messages')].type = "ai"
              /\ node' = (IF messages'[Len(messages')].tool_calls > 0
                          THEN "call_tool" ELSE "Summary")
        /\ node' = "Summary" =>
              (node \in Backends /\ messages'[Len(messages')].tool_calls = 0)
        /\ \A i \in 1..Len(path') : path'[i] # "Summary"
        /\ node = "Summary" => (node' = "idle" /\ pc' = "commenter" /\ prev' = pc)
        /\ (node # "idle" /\ node' = "idle") => node = "Summary"
      ]_vars

\* One tool round: question, request of a tool, its result, the answer.
C22_Witness ==
    /\ node = "Summary"
    /\ path = << "GPT", "call_tool", "GPT" >>
    /\ [i \in 1..4 |-> messages[i].type] = << "human", "ai", "tool", "ai" >>
    /\ messages[2].tool_calls = 1
    /\ messages[4].tool_calls = 0

C25_SummaryAtRoundEnd ==
    /\ pc = "final_summary" =>
          /\ prev \in {"revised_response_handler", "check_done"}
          /\ index = threads
          /\ \A p \in Positions : HistLen(responses[p]) = HistLen(responses[1])
    /\ (pc = "final_summary" /\ prev = "revised_response_handler") =>
          \A p \in Positions : HistLen(responses[p]) = revisions + 1

\* Tier 4: the budget ends the run after all nine threads were revised.
C25_Witness ==
    /\ pc = "final_summary"
    /\ prev = "revised_response_handler"
    /\ threads = 9
    /\ index = 9
    /\ \A p \in Positions : HistLen(responses[p]) = 2

\* C26: no thread, in the population, discarded or copied from, has more than
\* revisions + 1 entries (more than 1 before the classifier has set
\* `revisions`), and the thread a revision is generated or committed for has
\* at most `revisions` entries.
C26_HistoryWithinBudget ==
    /\ \A ref \in 1..Len(heap) :
          HistLen(ref) <= (IF revisions = UNSET THEN 1 ELSE revisions + 1)
    /\ pc \in {"get_revision_response", "revised_response_handler"} =>
          HistLen(responses[index + 1]) <= revisions

C26_Witness ==
    /\ pc = "END"
    /\ revisions = 4
    /\ \A p \in Positions : HistLen(responses[p]) = 5
    /\ \E ref \in 1..Len(heap) : HistLen(ref) = 1

\* C27: right after beam_search_agent, no discarded thread has a newest
\* score above that of a thread of the new population; the discarded threads
\* are threads - beams threads of the input, each one once, and every input
\* thread not discarded ranks before every discarded one (higher newest
\* score, or the same score and an earlier position).
C27_DiscardedRankLowest ==
    prev = "beam_search_agent" =>
        /\ \A p \in Positions : \A d \in 1..Len(discarded_responses) :
              Score(responses[p]) >= Score(discarded_responses[d])
        /\ Len(discarded_responses) = threads - beams
        /\ \A d \in 1..Len(discarded_responses) :
              /\ \E p \in 1..Len(beam_in) : beam_in[p] = discarded_responses[d]
              /\ \A e \in 1..Len(discarded_responses) :
                    discarded_responses[e] = discarded_responses[d] => e = d
        /\ \A p \in 1..Len(beam_in) : \A q \in 1..Len(beam_in) :
              ( /\ \A d \in 1..Len(discarded_responses) : discarded_responses[d] # beam_in[p]
                /\ \E d \in 1..Len(discarded_responses) : discarded_responses[d] = beam_in[q] )
              => \/ Score(beam_in[p]) > Score(beam_in[q])
                 \/ (Score(beam_in[p]) = Score(beam_in[q]) /\ p < q)

\* Five threads with newest scores 3, 5, 3, 1, 3 and beams = 2: the 2nd and
\* the 1st are kept, the 3rd, 5th and 4th discarded.
C27_Witness ==
    /\ prev = "beam_search_agent"
    /\ threads = 5
    /\ beams = 2
    /\ [p \in 1..5 |-> Score(beam_in[p])] = << 3, 5, 3, 1, 3 >>
    /\ discarded_responses = << beam_in[3], beam_in[5], beam_in[4] >>

====
